---- MODULE Spec2Model ----
(***************************************************************************)
(* Pomodoro timer (pomodoro_timer.py): the PomodoroTimer state machine,    *)
(* the PomodoroGUI command handlers that drive it, the Tk `after` callback *)
(* that counts down, and the alert thread started on every phase expiry.   *)
(***************************************************************************)
EXTENDS Integers, Sequences, FiniteSets, TLC

\* ---------------------------------------------------------------- State enum
FOCUS == "Focus"
SHORT_BREAK == "Short Break"
LONG_BREAK == "Long Break"

State == {FOCUS, SHORT_BREAK, LONG_BREAK}

\* State durations in seconds
DURATIONS ==
  [s \in State |-> CASE s = FOCUS -> 25 * 60
                     [] s = SHORT_BREAK -> 5 * 60
                     [] s = LONG_BREAK -> 15 * 60]

\* Length of the focus cycle: the value at which focus_count wraps to 0.
CyclePeriod == 4

\* Number of whole focus cycles the history counter focus_exits tells apart.
MaxCycles == 2

\* Cap on scheduled callbacks whose id is no longer held in timer_id.
MaxOrphans == 2

\* Cap on the tick() calls counted within one scheduling period.
MaxBurst == 2

\* Length of the end-to-end run: the tick() calls one Focus phase takes.
E2ETicks == 1500

\* ---------------------------------------------------------------- variables
VARIABLES
  current_state,   \* PomodoroTimer.current_state
  time_remaining,  \* PomodoroTimer.time_remaining
  is_running,      \* PomodoroTimer.is_running
  focus_count,     \* PomodoroTimer.focus_count
  timer_id,        \* PomodoroTimer.timer_id: "None", or the id of a callback
                   \* that is still "pending" in Tk, or a "stale" id (the
                   \* callback has fired or was cancelled)
  orphans,         \* scheduled callbacks whose id timer_id no longer holds
  start_button,    \* widget states, "normal" or "disabled"
  pause_button,
  stop_button,
  alert,           \* the most recent play_sound thread
  tick_ret,        \* return value of the most recent tick() call
  last_op,         \* history: the operation that produced this state
  calls,           \* history: the calls that operation made, in order
  prev_state,      \* history: current_state before that operation
  focus_exits,     \* history: transitions out of Focus so far,
                   \* modulo CyclePeriod * MaxCycles
  fresh_ticks,     \* history: tick() calls since construction, while nothing
                   \* but start and tick() has been called and at most
                   \* E2ETicks of them; -1 afterwards
  burst,           \* history: tick() calls countdown() has made since a
                   \* whole scheduling period (the 1000 ms of root.after)
                   \* last elapsed
  long_gap         \* history: Focus expiries and ShortBreak entries since
                   \* the last entry into LongBreak, and whether there was one

engineVars == <<current_state, time_remaining, focus_count>>
buttonVars == <<start_button, pause_button, stop_button>>
vars == <<current_state, time_remaining, is_running, focus_count, timer_id,
          orphans, start_button, pause_button, stop_button, alert, tick_ret,
          last_op, calls, prev_state, focus_exits, fresh_ticks, burst,
          long_gap>>

\* The fields the PomodoroTimer methods read and write.
self ==
  [current_state |-> current_state,
   time_remaining |-> time_remaining,
   focus_count |-> focus_count]

SetEngine(t) ==
  /\ current_state' = t.current_state
  /\ time_remaining' = t.time_remaining
  /\ focus_count' = t.focus_count

\* ------------------------------------------------------ PomodoroTimer methods
\* Variant of get_next_state in which a break is followed by itself.
get_next_state_stuck(t) ==
  IF t.current_state = FOCUS
    THEN IF t.focus_count >= 3 THEN LONG_BREAK ELSE SHORT_BREAK
    ELSE t.current_state

get_next_state(t) ==
  IF t.current_state = FOCUS
    THEN IF t.focus_count >= 3 THEN LONG_BREAK ELSE SHORT_BREAK
    ELSE FOCUS

\* Variants of transition_to_next_state with one slip each.
transition_wrap_late(t) ==
  LET inc == IF t.current_state = FOCUS THEN t.focus_count + 1
                                        ELSE t.focus_count
      cnt == IF t.current_state = FOCUS /\ inc >= 5 THEN 0 ELSE inc
      t1 == [t EXCEPT !.focus_count = cnt]
      nxt == get_next_state(t1)
  IN  [t1 EXCEPT !.current_state = nxt, !.time_remaining = DURATIONS[nxt]]

transition_count_on_break(t) ==
  LET inc == t.focus_count + 1
      cnt == IF inc >= 4 THEN 0 ELSE inc
      t1 == [t EXCEPT !.focus_count = cnt]
      nxt == get_next_state(t1)
  IN  [t1 EXCEPT !.current_state = nxt, !.time_remaining = DURATIONS[nxt]]

transition_old_duration(t) ==
  LET inc == IF t.current_state = FOCUS THEN t.focus_count + 1
                                        ELSE t.focus_count
      cnt == IF t.current_state = FOCUS /\ inc >= 4 THEN 0 ELSE inc
      t1 == [t EXCEPT !.focus_count = cnt]
      nxt == get_next_state(t1)
  IN  [t1 EXCEPT !.current_state = nxt,
                 !.time_remaining = DURATIONS[t.current_state]]

transition_to_next_state(t) ==
  LET inc == IF t.current_state = FOCUS THEN t.focus_count + 1
                                        ELSE t.focus_count
      cnt == IF t.current_state = FOCUS /\ inc >= 4 THEN 0 ELSE inc
      t1 == [t EXCEPT !.focus_count = cnt]
      nxt == get_next_state(t1)
  IN  [t1 EXCEPT !.current_state = nxt, !.time_remaining = DURATIONS[nxt]]

\* Variant of reset_to_focus that restarts the tally when a break is skipped.
reset_clears_count(t) ==
  IF t.current_state = FOCUS
    THEN [t EXCEPT !.time_remaining = DURATIONS[FOCUS]]
    ELSE [t EXCEPT !.current_state = FOCUS,
                   !.time_remaining = DURATIONS[FOCUS],
                   !.focus_count = 0]

reset_to_focus(t) ==
  IF t.current_state = FOCUS
    THEN [t EXCEPT !.time_remaining = DURATIONS[FOCUS]]
    ELSE [t EXCEPT !.current_state = FOCUS,
                   !.time_remaining = DURATIONS[FOCUS]]

\* Variants of tick: no guard at zero; the result taken before the decrement.
tick_unguarded(t) ==
  [timer |-> [t EXCEPT !.time_remaining = t.time_remaining - 1],
   ret |-> (t.time_remaining - 1 = 0)]

tick_early_result(t) ==
  IF t.time_remaining > 0
    THEN [timer |-> [t EXCEPT !.time_remaining = t.time_remaining - 1],
          ret |-> (t.time_remaining = 0)]
    ELSE [timer |-> t, ret |-> FALSE]

\* tick() returns a value and updates the timer: both are in the record.
tick(t) ==
  IF t.time_remaining > 0
    THEN [timer |-> [t EXCEPT !.time_remaining = t.time_remaining - 1],
          ret |-> (t.time_remaining - 1 = 0)]
    ELSE [timer |-> t, ret |-> FALSE]

\* ------------------------------------------------------------- initial state
Init ==
  /\ current_state = FOCUS
  /\ time_remaining = DURATIONS[FOCUS]
  /\ is_running = FALSE
  /\ focus_count = 0
  /\ timer_id = "None"
  /\ orphans = 0
  /\ start_button = "normal"
  /\ pause_button = "disabled"
  /\ stop_button = "disabled"
  /\ alert = "none"
  /\ tick_ret = FALSE
  /\ last_op = "init"
  /\ calls = <<>>
  /\ prev_state = FOCUS
  /\ focus_exits = 0
  /\ fresh_ticks = 0
  /\ burst = 0
  /\ long_gap = [focus |-> 0, short |-> 0, seen |-> FALSE]

\* History of a transition_to_next_state call made in phase s.
ExitsAfter(s) ==
  IF s = FOCUS THEN (focus_exits + 1) % (CyclePeriod * MaxCycles)
               ELSE focus_exits

\* History of a tick() call: one more call of the end-to-end run.
FreshAfterTick ==
  IF fresh_ticks >= 0 /\ fresh_ticks < E2ETicks THEN fresh_ticks + 1 ELSE -1

\* History of a transition_to_next_state call from phase s into phase nxt.
GapAfter(s, nxt) ==
  IF s # FOCUS THEN long_gap
  ELSE IF nxt = LONG_BREAK THEN [focus |-> 0, short |-> 0, seen |-> TRUE]
  ELSE [long_gap EXCEPT !.focus = @ + 1, !.short = @ + 1]

\* Variant of AfterCancel that leaves the scheduled callback in place.
AfterCancel_forgotten ==
  /\ timer_id' = timer_id
  /\ orphans' = orphans

\* root.after_cancel(timer_id), guarded by `if self.timer.timer_id`
AfterCancel ==
  /\ timer_id' = IF timer_id = "pending" THEN "stale" ELSE timer_id
  /\ orphans' = orphans

\* --------------------------------------------------------- PomodoroGUI methods
\* Variant of countdown that reschedules on expiry without the transition.
countdown_no_transition(running, tid, orph) ==
  IF running
    THEN LET r == tick(self)
             left == IF tid = "pending" THEN orph + 1 ELSE orph
         IN  /\ left <= MaxOrphans
             /\ tick_ret' = r.ret
             /\ fresh_ticks' = FreshAfterTick
             /\ alert' = IF r.ret THEN "playing" ELSE alert
             /\ SetEngine(r.timer)
             /\ focus_exits' = focus_exits
             /\ long_gap' = long_gap
             /\ calls' = IF r.ret THEN <<"tick", "play_alert", "after">>
                                  ELSE <<"tick", "after">>
             /\ timer_id' = "pending"
             /\ orphans' = left
    ELSE /\ UNCHANGED <<engineVars, tick_ret, alert, focus_exits,
                        fresh_ticks, long_gap>>
         /\ timer_id' = tid
         /\ orphans' = orph
         /\ calls' = <<>>

\* countdown(), entered with is_running = running, timer_id = tid and orph
\* untracked callbacks scheduled.
countdown(running, tid, orph) ==
  IF running
    THEN LET r == tick(self)
             left == IF tid = "pending" THEN orph + 1 ELSE orph
         IN  /\ left <= MaxOrphans
             /\ tick_ret' = r.ret
             /\ fresh_ticks' = FreshAfterTick
             /\ IF r.ret
                  THEN /\ alert' = "playing"
                       /\ SetEngine(transition_to_next_state(r.timer))
                       /\ focus_exits' = ExitsAfter(current_state)
                       /\ long_gap' = GapAfter(current_state, current_state')
                       /\ calls' = <<"tick", "play_alert",
                                     "transition_to_next_state", "after">>
                  ELSE /\ alert' = alert
                       /\ SetEngine(r.timer)
                       /\ focus_exits' = focus_exits
                       /\ long_gap' = long_gap
                       /\ calls' = <<"tick", "after">>
             /\ timer_id' = "pending"
             /\ orphans' = left
    ELSE /\ UNCHANGED <<engineVars, tick_ret, alert, focus_exits,
                        fresh_ticks, long_gap>>
         /\ timer_id' = tid
         /\ orphans' = orph
         /\ calls' = <<>>

start_timer ==
  /\ last_op' = "start_timer"
  /\ prev_state' = current_state
  /\ IF ~is_running
       THEN /\ is_running' = TRUE
            /\ start_button' = "disabled"
            /\ pause_button' = "normal"
            /\ stop_button' = "normal"
            /\ countdown(TRUE, timer_id, orphans)
            /\ burst < MaxBurst
            /\ burst' = burst + 1
       ELSE /\ calls' = <<>>
            /\ UNCHANGED <<engineVars, is_running, timer_id, orphans,
                           buttonVars, alert, tick_ret, focus_exits,
                           fresh_ticks, burst, long_gap>>

\* Variant of pause_timer that restores the full time, as stop_timer does.
pause_timer_restores_time ==
  /\ last_op' = "pause_timer"
  /\ prev_state' = current_state
  /\ calls' = <<>>
  /\ is_running' = FALSE
  /\ start_button' = "normal"
  /\ pause_button' = "disabled"
  /\ AfterCancel
  /\ time_remaining' = DURATIONS[current_state]
  /\ fresh_ticks' = -1
  /\ UNCHANGED <<current_state, focus_count, stop_button, alert, tick_ret,
                 focus_exits, burst, long_gap>>

pause_timer ==
  /\ last_op' = "pause_timer"
  /\ prev_state' = current_state
  /\ calls' = <<>>
  /\ is_running' = FALSE
  /\ start_button' = "normal"
  /\ pause_button' = "disabled"
  /\ AfterCancel
  /\ fresh_ticks' = -1
  /\ UNCHANGED <<engineVars, stop_button, alert, tick_ret, focus_exits,
                 burst, long_gap>>

\* Variant of stop_timer that restores the Focus duration in every phase.
stop_timer_focus_time ==
  /\ last_op' = "stop_timer"
  /\ prev_state' = current_state
  /\ calls' = <<>>
  /\ is_running' = FALSE
  /\ AfterCancel
  /\ time_remaining' = DURATIONS[FOCUS]
  /\ start_button' = "normal"
  /\ pause_button' = "disabled"
  /\ stop_button' = "disabled"
  /\ fresh_ticks' = -1
  /\ UNCHANGED <<current_state, focus_count, alert, tick_ret, focus_exits,
                 burst, long_gap>>

stop_timer ==
  /\ last_op' = "stop_timer"
  /\ prev_state' = current_state
  /\ calls' = <<>>
  /\ is_running' = FALSE
  /\ AfterCancel
  /\ time_remaining' = DURATIONS[current_state]
  /\ start_button' = "normal"
  /\ pause_button' = "disabled"
  /\ stop_button' = "disabled"
  /\ fresh_ticks' = -1
  /\ UNCHANGED <<current_state, focus_count, alert, tick_ret, focus_exits,
                 burst, long_gap>>

reset_timer ==
  /\ last_op' = "reset_timer"
  /\ prev_state' = current_state
  /\ calls' = <<"reset_to_focus">>
  /\ is_running' = FALSE
  /\ AfterCancel
  /\ SetEngine(reset_to_focus(self))
  /\ start_button' = "normal"
  /\ pause_button' = "disabled"
  /\ stop_button' = "disabled"
  /\ fresh_ticks' = -1
  /\ UNCHANGED <<alert, tick_ret, focus_exits, burst, long_gap>>

\* ------------------------------------------------- the application's events
\* A button runs its command only while it is enabled.
ClickStart == start_button = "normal" /\ start_timer
ClickPause == pause_button = "normal" /\ pause_timer
ClickStop == stop_button = "normal" /\ stop_timer
ClickReset == reset_timer

\* Tk fires one scheduled callback: the one timer_id holds, or an orphan.
CountdownCallback ==
  /\ last_op' = "countdown"
  /\ prev_state' = current_state
  /\ \E tracked \in BOOLEAN :
       IF tracked
         THEN /\ timer_id = "pending"
              /\ countdown(is_running, "stale", orphans)
         ELSE /\ orphans > 0
              /\ countdown(is_running, timer_id, orphans - 1)
  /\ burst' = IF is_running THEN 1 ELSE 0
  /\ UNCHANGED <<is_running, buttonVars>>

\* The play_sound thread ends: winsound.Beep returns, or raises in the thread.
PlaySoundReturns ==
  /\ alert = "playing"
  /\ alert' = "done"
  /\ last_op' = "play_sound"
  /\ prev_state' = current_state
  /\ calls' = <<>>
  /\ UNCHANGED <<engineVars, is_running, timer_id, orphans, buttonVars,
                 tick_ret, focus_exits, fresh_ticks, burst, long_gap>>

\* Variant of PlaySoundRaises in which the failure stops the timer.
PlaySoundRaises_stops_timer ==
  /\ alert = "playing"
  /\ alert' = "failed"
  /\ last_op' = "play_sound"
  /\ prev_state' = current_state
  /\ calls' = <<>>
  /\ is_running' = FALSE
  /\ UNCHANGED <<engineVars, timer_id, orphans, buttonVars,
                 tick_ret, focus_exits, fresh_ticks, burst, long_gap>>

PlaySoundRaises ==
  /\ alert = "playing"
  /\ alert' = "failed"
  /\ last_op' = "play_sound"
  /\ prev_state' = current_state
  /\ calls' = <<>>
  /\ UNCHANGED <<engineVars, is_running, timer_id, orphans, buttonVars,
                 tick_ret, focus_exits, fresh_ticks, burst, long_gap>>

\* A whole scheduling period passes with no callback scheduled (a scheduled
\* callback would fire: that is CountdownCallback).
PeriodElapses ==
  /\ timer_id # "pending"
  /\ orphans = 0
  /\ burst > 0
  /\ burst' = 0
  /\ last_op' = "period_elapses"
  /\ prev_state' = current_state
  /\ calls' = <<>>
  /\ UNCHANGED <<engineVars, is_running, timer_id, orphans, buttonVars,
                 alert, tick_ret, focus_exits, fresh_ticks, long_gap>>

Next ==
  \/ ClickStart
  \/ ClickPause
  \/ ClickStop
  \/ ClickReset
  \/ CountdownCallback
  \/ PlaySoundReturns
  \/ PlaySoundRaises
  \/ PeriodElapses

Spec == Init /\ [][Next]_vars

\* ------------------------------------ the classes driven directly by a caller
\* Variant of Tick in which tick() tests is_running before it counts down.
Tick_only_when_running ==
  /\ last_op' = "tick"
  /\ prev_state' = current_state
  /\ calls' = <<"tick">>
  /\ SetEngine(IF is_running THEN tick(self).timer ELSE self)
  /\ tick_ret' = (is_running /\ tick(self).ret)
  /\ fresh_ticks' = FreshAfterTick
  /\ UNCHANGED <<is_running, timer_id, orphans, buttonVars, alert,
                 focus_exits, burst, long_gap>>

Tick ==
  /\ last_op' = "tick"
  /\ prev_state' = current_state
  /\ calls' = <<"tick">>
  /\ SetEngine(tick(self).timer)
  /\ tick_ret' = tick(self).ret
  /\ fresh_ticks' = FreshAfterTick
  /\ UNCHANGED <<is_running, timer_id, orphans, buttonVars, alert,
                 focus_exits, burst, long_gap>>

TransitionToNextState ==
  /\ last_op' = "transition_to_next_state"
  /\ prev_state' = current_state
  /\ calls' = <<"transition_to_next_state">>
  /\ SetEngine(transition_to_next_state(self))
  /\ focus_exits' = ExitsAfter(current_state)
  /\ long_gap' = GapAfter(current_state, current_state')
  /\ fresh_ticks' = IF fresh_ticks = E2ETicks /\ last_op = "tick"
                      THEN fresh_ticks ELSE -1
  /\ UNCHANGED <<is_running, timer_id, orphans, buttonVars, alert, tick_ret,
                 burst>>

ResetToFocus ==
  /\ last_op' = "reset_to_focus"
  /\ prev_state' = current_state
  /\ calls' = <<"reset_to_focus">>
  /\ SetEngine(reset_to_focus(self))
  /\ fresh_ticks' = -1
  /\ UNCHANGED <<is_running, timer_id, orphans, buttonVars, alert, tick_ret,
                 focus_exits, burst, long_gap>>

NextApi ==
  \/ start_timer
  \/ pause_timer
  \/ stop_timer
  \/ reset_timer
  \/ CountdownCallback
  \/ PlaySoundReturns
  \/ PlaySoundRaises
  \/ PeriodElapses
  \/ Tick
  \/ TransitionToNextState
  \/ ResetToFocus

ApiSpec == Init /\ [][NextApi]_vars

\* The uninterrupted cycle: start once, then only the countdown runs.
NextCycle ==
  \/ ClickStart
  \/ CountdownCallback
  \/ PlaySoundReturns
  \/ PlaySoundRaises

CycleSpec == Init /\ [][NextCycle]_vars

\* The Tk event loop runs every callback that root.after has scheduled.
LiveSpec == CycleSpec /\ WF_vars(CountdownCallback)

TypeOK ==
  /\ current_state \in State
  /\ time_remaining \in Int
  /\ is_running \in BOOLEAN
  /\ focus_count \in Int
  /\ timer_id \in {"None", "pending", "stale"}
  /\ orphans \in 0..MaxOrphans
  /\ start_button \in {"normal", "disabled"}
  /\ pause_button \in {"normal", "disabled"}
  /\ stop_button \in {"normal", "disabled"}
  /\ alert \in {"none", "playing", "done", "failed"}
  /\ tick_ret \in BOOLEAN
  /\ prev_state \in State
  /\ focus_exits \in 0..(CyclePeriod * MaxCycles - 1)
  /\ fresh_ticks \in -1..E2ETicks
  /\ burst \in 0..MaxBurst
  /\ long_gap.focus \in 0..CyclePeriod
  /\ long_gap.short \in 0..CyclePeriod
  /\ long_gap.seen \in BOOLEAN

\* ======================================================================
\* Properties
\* ======================================================================
\* The last operation called transition_to_next_state.
Transitioned ==
  \E i \in 1..Len(calls) : calls[i] = "transition_to_next_state"

\* C1: with only start and the countdown acting, LongBreak is entered at
\* the 4th, 8th, ... Focus expiry and ShortBreak at every other Focus
\* expiry (the phase sequence is F,S,F,S,F,S,F,L repeated).
C1_PhaseCycle ==
  /\ current_state = LONG_BREAK => focus_exits % CyclePeriod = 0
  /\ current_state = SHORT_BREAK => focus_exits % CyclePeriod # 0

\* C2: a transition out of Focus enters LongBreak iff focus_count was 3
\* before the transition and ShortBreak if it was 0, 1 or 2; a transition
\* out of a break enters Focus.
C2_NextFromPreCount ==
  [][Transitioned' =>
       IF current_state = FOCUS
         THEN /\ (current_state' = LONG_BREAK) <=> (focus_count = 3)
              /\ focus_count \in 0..2 => current_state' = SHORT_BREAK
         ELSE current_state' = FOCUS]_vars

\* C3: focus_count is 0 in every state whose phase is LongBreak (the
\* counter is reset in the step that enters the long break).
C3_LongBreakCountZero ==
  current_state = LONG_BREAK => focus_count = 0

\* C4: after the n-th Focus expiry focus_count is n modulo 4 (1,2,3,0,...);
\* a transition out of a break, which is not a Focus expiry, leaves it.
C4_CountCycle ==
  focus_count = focus_exits % CyclePeriod

\* The counter has wrapped and the second cycle's first focus has expired.
C4_Witness ==
  /\ last_op = "countdown"
  /\ Transitioned
  /\ prev_state = FOCUS
  /\ focus_exits = CyclePeriod + 1
  /\ focus_count = 1

\* C5: 0 <= time_remaining <= DURATIONS[current_state] in every state.
C5_TimeInRange ==
  /\ time_remaining >= 0
  /\ time_remaining <= DURATIONS[current_state]

\* A phase has run down to zero while the timer is running, in a break.
C5_Witness ==
  /\ time_remaining = 0
  /\ is_running
  /\ current_state = SHORT_BREAK

\* C6: focus_count is in {0,1,2,3} in every state between operations.
C6_CountInRange ==
  focus_count \in {0, 1, 2, 3}

\* The transition that took the count to 4 has wrapped it to 0.
C6_Witness ==
  /\ Transitioned
  /\ prev_state = FOCUS
  /\ focus_exits = CyclePeriod
  /\ focus_count = 0

\* C7: tick() from n > 0 leaves n-1 and returns (n-1 = 0); from 0 it
\* leaves 0 and returns false; phase, count and running flag are unchanged.
C7_Tick ==
  [][last_op' = "tick" =>
       /\ IF time_remaining > 0
            THEN /\ time_remaining' = time_remaining - 1
                 /\ tick_ret' = (time_remaining' = 0)
            ELSE /\ time_remaining' = 0
                 /\ tick_ret' = FALSE
       /\ current_state' = current_state
       /\ focus_count' = focus_count
       /\ is_running' = is_running]_vars

\* tick() was called on an expired phase: nothing left, false returned.
C7_Witness ==
  /\ last_op = "tick"
  /\ time_remaining = 0
  /\ tick_ret = FALSE

\* C8: after a transition_to_next_state call time_remaining is the full
\* duration of the phase entered.
C8_FullDuration ==
  Transitioned =>
    time_remaining = IF current_state = FOCUS THEN 1500
                     ELSE IF current_state = SHORT_BREAK THEN 300 ELSE 900

\* A transition called before the phase had expired (the last tick
\* returned false) entered the long break at its full length.
C8_Witness ==
  /\ last_op = "transition_to_next_state"
  /\ tick_ret = FALSE
  /\ current_state = LONG_BREAK
  /\ time_remaining = 900

\* C9: reset_to_focus (directly or through reset_timer) yields Focus with
\* 1500 seconds and leaves focus_count as it was, in Focus and in a break.
C9_Reset ==
  [][last_op' \in {"reset_to_focus", "reset_timer"} =>
       /\ current_state' = FOCUS
       /\ time_remaining' = 1500
       /\ focus_count' = focus_count]_vars

\* A short break was skipped with two focus sessions in the tally.
C9_Witness ==
  /\ last_op = "reset_timer"
  /\ prev_state = SHORT_BREAK
  /\ current_state = FOCUS
  /\ time_remaining = 1500
  /\ focus_count = 2

\* C10: stop_timer yields is_running = false and the full duration of the
\* current phase, and leaves current_state and focus_count unchanged.
C10_Stop ==
  [][last_op' = "stop_timer" =>
       /\ is_running' = FALSE
       /\ time_remaining' = DURATIONS[current_state]
       /\ current_state' = current_state
       /\ focus_count' = focus_count]_vars

\* The timer was stopped during a long break.
C10_Witness ==
  /\ last_op = "stop_timer"
  /\ current_state = LONG_BREAK
  /\ time_remaining = 900
  /\ is_running = FALSE

\* C11: start_timer changes only is_running: when the timer is not running
\* it sets is_running and leaves time_remaining, current_state and
\* focus_count as they were; when it is running it changes nothing.
C11_StartOnlyRunning ==
  [][last_op' = "start_timer" =>
       IF ~is_running
         THEN /\ is_running' = TRUE
              /\ UNCHANGED <<time_remaining, current_state, focus_count>>
         ELSE UNCHANGED <<engineVars, is_running, timer_id, orphans,
                          buttonVars, alert, tick_ret>>]_vars

\* C12: pause_timer sets is_running to false and leaves time_remaining,
\* current_state and focus_count unchanged; when the timer is already
\* paused it changes nothing at all.
C12_PauseOnlyRunning ==
  [][last_op' = "pause_timer" =>
       /\ is_running' = FALSE
       /\ UNCHANGED <<time_remaining, current_state, focus_count>>
       /\ ~is_running =>
            UNCHANGED <<timer_id, orphans, buttonVars, alert, tick_ret>>]_vars

\* A running short break was paused part-way: the time left is kept and the
\* scheduled callback is cancelled.
C12_Witness ==
  /\ last_op = "pause_timer"
  /\ is_running = FALSE
  /\ timer_id = "stale"
  /\ current_state = SHORT_BREAK
  /\ time_remaining = 123

\* C13: tick() called while is_running is false is a no-op: time_remaining,
\* current_state, focus_count and is_running are unchanged.
C13_TickNoOpWhenStopped ==
  [][(last_op' = "tick" /\ ~is_running) =>
       UNCHANGED <<time_remaining, current_state, focus_count,
                   is_running>>]_vars

\* C13 as amended: tick() called while is_running is false leaves
\* current_state, focus_count and is_running unchanged, and time_remaining
\* only when it is 0; otherwise it counts down by one as when running.
C13_TickWhenStopped ==
  [][(last_op' = "tick" /\ ~is_running) =>
       /\ UNCHANGED <<current_state, focus_count, is_running>>
       /\ time_remaining' = IF time_remaining > 0 THEN time_remaining - 1
                                                  ELSE 0]_vars

\* tick() was called on a timer that was never started.
C13_Witness ==
  /\ last_op = "tick"
  /\ is_running = FALSE
  /\ start_button = "normal"
  /\ stop_button = "disabled"
  /\ fresh_ticks = 1
  /\ time_remaining = 1499

\* C14: no scheduled countdown callback runs while is_running is false,
\* and while is_running is false time_remaining is decremented by nothing
\* but the next start.
C14_NoTickAfterPause ==
  [][/\ last_op' = "countdown" => is_running
     /\ (~is_running /\ time_remaining' < time_remaining) =>
          last_op' = "start_timer"]_vars

\* stop_timer has cancelled the callback that was scheduled.
C14_Witness ==
  /\ last_op = "stop_timer"
  /\ timer_id = "stale"
  /\ orphans = 0
  /\ is_running = FALSE
  /\ current_state = FOCUS
  /\ focus_exits = 1

\* C15: an operation of the application that calls tick() calls
\* transition_to_next_state exactly when tick() returned true, once, right
\* after initiating the alert, and then schedules the next tick while the
\* alert is still playing; nothing else calls transition_to_next_state.
C15_ExpiryProtocol ==
  /\ (calls # <<>> /\ calls[1] = "tick") =>
       calls = IF tick_ret
                 THEN <<"tick", "play_alert", "transition_to_next_state",
                        "after">>
                 ELSE <<"tick", "after">>
  /\ Transitioned =>
       /\ last_op \in {"countdown", "start_timer"}
       /\ calls[1] = "tick"
       /\ tick_ret
       /\ alert = "playing"
       /\ timer_id = "pending"

\* A Focus phase has expired in a scheduled callback.
C15_Witness ==
  /\ last_op = "countdown"
  /\ Transitioned
  /\ prev_state = FOCUS
  /\ current_state = SHORT_BREAK
  /\ alert = "playing"
  /\ timer_id = "pending"

\* C16: the end of the play_sound thread, normal or by an exception,
\* changes no timer field and no scheduled callback: a running timer still
\* has its next tick scheduled.
C16_AlertIsolated ==
  [][last_op' = "play_sound" =>
       /\ UNCHANGED <<current_state, time_remaining, focus_count,
                      is_running, timer_id, orphans>>
       /\ is_running' => timer_id' = "pending"]_vars

\* The countdown has gone on into the break after the alert failed.
C16_Witness ==
  /\ alert = "failed"
  /\ last_op = "countdown"
  /\ calls = <<"tick", "after">>
  /\ is_running
  /\ current_state = SHORT_BREAK
  /\ time_remaining = 250

C18_CycleForever ==
  /\ is_running ~> (current_state = LONG_BREAK)
  /\ is_running ~> (current_state = SHORT_BREAK)
  /\ (is_running /\ current_state # FOCUS) ~> (current_state = FOCUS)
  /\ [](ENABLED <<NextCycle>>_vars)

\* The second long break of a run has been entered.
C18_Witness ==
  /\ is_running
  /\ current_state = LONG_BREAK
  /\ Transitioned
  /\ focus_exits = 2 * CyclePeriod - 1

\* C19: at most one countdown callback is scheduled at any time, one is
\* scheduled only while is_running is true, and the countdown makes at
\* most one decrement per scheduling period however the buttons are pressed.
C19_OneCallback ==
  /\ orphans + (IF timer_id = "pending" THEN 1 ELSE 0) <= 1
  /\ (timer_id = "pending" \/ orphans > 0) => is_running
  /\ burst <= 1

\* C20: between two consecutive entries into LongBreak there are exactly
\* four Focus expiries, three of which enter ShortBreak, whatever pause,
\* stop and reset commands come in between.
C20_LongBreakSpacing ==
  [][(long_gap.seen /\ current_state # LONG_BREAK
        /\ current_state' = LONG_BREAK) =>
       /\ long_gap.focus + 1 = 4
       /\ long_gap.short = 3]_vars

\* A second long break has been entered after a stop or reset on the way.
C20_Witness ==
  /\ long_gap = [focus |-> 0, short |-> 0, seen |-> TRUE]
  /\ current_state = LONG_BREAK
  /\ focus_exits = 2 * CyclePeriod - 1
  /\ fresh_ticks = -1
  /\ last_op = "countdown"

====
